---- MODULE Spec2Model ----
(***************************************************************************)
(* Model of cmd/ecs-agent-status/main.go: a sequential driver that lists   *)
(* the ECS clusters whose name contains a substring, collects one Agent    *)
(* record per container instance of each matched cluster, prints the       *)
(* records and sets the process exit code.                                 *)
(*                                                                         *)
(* Strings that the program inspects (cluster ARNs, cluster names, the     *)
(* substring) are sequences of one-character strings.  The ECS API is the  *)
(* environment: every call picks its response nondeterministically.  A Go  *)
(* nil slice is the empty sequence and a nil error is the string "nil".    *)
(***************************************************************************)
EXTENDS Integers, Sequences, FiniteSets, TLC

\* ---------------------------------------------------------------- bounds
MaxClusters == 2
MaxInstances == 2
MaxPageSize == 2

\* ------------------------------------------------------ input universes
\* Cluster names of the account; ECS names are unique within an account.
ClusterNames == { <<"p", "a">>, <<"P", "a">>, <<"s", "p">> }
\* Values of the first positional argument.
Substrings == { <<>>, <<"p">>, <<"a">>, <<"p", "a">>, <<"x">> }
\* Agent status strings the describe call may report.
Statuses == { "ACTIVE", "DRAINING" }
\* Everything in a cluster ARN up to the "/" that precedes the name.
ArnPrefix == <<"a", "r", "n">>

NoErr == "nil"
SdkError == "SdkError"
ErrNoClusters == "no clusters found"
ErrNoInstances == "no container instances found"
ErrNotFound == "container instance not found"

UsageLine == <<"Usage: ecs-agent-status <cluster name substring>">>

Min(a, b) == IF a < b THEN a ELSE b

\* Sequences without repetition over S, of length at most n.
DistinctSeqs(S, n) ==
  { s \in UNION { [1..k -> S] : k \in 0..n } :
      \A i, j \in 1..Len(s) : i # j => s[i] # s[j] }

\* The ARN the list API reports for a cluster name.
ArnOf(name) == ArnPrefix \o <<"/">> \o name

\* The container-instance ARN number k of a cluster.
InstanceArn(cluster, k) == <<"ci", cluster, k>>

\* The EC2 instance id behind a container instance.
Ec2IdOf(arn) == <<"i", arn[2], arn[3]>>

\* ------------------------------------------------------- pure functions
\* strings.Split(s, sep) for a one-character separator.
RECURSIVE SplitFrom(_, _, _, _)
SplitFrom(s, sep, i, cur) ==
  IF i > Len(s) THEN <<cur>>
  ELSE IF s[i] = sep THEN <<cur>> \o SplitFrom(s, sep, i + 1, <<>>)
  ELSE SplitFrom(s, sep, i + 1, Append(cur, s[i]))

Split(s, sep) == SplitFrom(s, sep, 1, <<>>)

\* strings.Index(s, substr): 0-based offset of the first occurrence, or -1.
RECURSIVE IndexFrom(_, _, _)
IndexFrom(s, substr, i) ==
  IF i + Len(substr) > Len(s) THEN -1
  ELSE IF SubSeq(s, i + 1, i + Len(substr)) = substr THEN i
  ELSE IndexFrom(s, substr, i + 1)

Index(s, substr) == IndexFrom(s, substr, 0)

ToLower(ch) == IF ch = "P" THEN "p" ELSE IF ch = "A" THEN "a" ELSE ch

ContainsFold(s, substr) ==
  Index([i \in 1..Len(s) |-> ToLower(s[i])],
        [i \in 1..Len(substr) |-> ToLower(substr[i])]) >= 0

\* strings.Contains(s, substr)
Contains(s, substr) == Index(s, substr) >= 0

\* main.go:69-74, the filter loop over one page of cluster ARNs.
RECURSIVE FilterPage(_, _, _, _)
FilterPage(arns, sub, i, acc) ==
  IF i > Len(arns) THEN acc
  ELSE LET clusterName == Split(arns[i], "/")[2]
       IN  FilterPage(arns, sub, i + 1,
                      IF Contains(clusterName, sub)
                        THEN Append(acc, clusterName) ELSE acc)

ClustersResultNoCheck(cl) == [val |-> cl, err |-> NoErr]

\* main.go:76-79
ClustersResult(cl) ==
  IF Len(cl) = 0 THEN [val |-> <<>>, err |-> ErrNoClusters]
  ELSE [val |-> cl, err |-> NoErr]

ListCheckNoEmpty(out) ==
  IF out.err # NoErr THEN [done |-> TRUE, err |-> out.err]
  ELSE [done |-> FALSE, err |-> NoErr]

\* main.go:102-107: whether GetContainerInstancesForCluster returns here.
ListCheck(out) ==
  IF out.err # NoErr THEN [done |-> TRUE, err |-> out.err]
  ELSE IF Len(out.arns) = 0 THEN [done |-> TRUE, err |-> ErrNoInstances]
  ELSE [done |-> FALSE, err |-> NoErr]

\* main.go:153-161
DescribeResult(out) ==
  IF out.err # NoErr THEN [ec2 |-> <<>>, status |-> "", err |-> out.err]
  ELSE IF Len(out.instances) = 0
    THEN [ec2 |-> <<>>, status |-> "", err |-> ErrNotFound]
  ELSE [ec2 |-> out.instances[1].ec2, status |-> out.instances[1].status,
        err |-> NoErr]

\* main.go:182-187
MakeAgent(clusterName, containerInstance, ec2InstanceID, ecsAgentStatus) ==
  [Cluster |-> clusterName, ContainerInstanceARN |-> containerInstance,
   EC2InstanceID |-> ec2InstanceID, AgentStatus |-> ecsAgentStatus]

DescribeFailPartial(collected, err) == [val |-> collected, err |-> err]

\* main.go:177-179
DescribeFail(collected, err) == [val |-> <<>>, err |-> err]

StringSwapped(a) ==
  <<"Cluster: ", a.Cluster, ", ContainerInstanceARN: ", a.EC2InstanceID,
    ", EC2InstanceID: ", a.ContainerInstanceARN,
    ", AgentStatus: ", a.AgentStatus>>

\* main.go:26-28, Agent.String
String(a) ==
  <<"Cluster: ", a.Cluster, ", ContainerInstanceARN: ", a.ContainerInstanceARN,
    ", EC2InstanceID: ", a.EC2InstanceID, ", AgentStatus: ", a.AgentStatus>>

LookupFailedNever(ret) == FALSE

\* main.go:202
LookupFailed(ret) == ret.err # NoErr

PrependAgent(list, agent) == <<agent>> \o list

\* main.go:213
AppendAgent(list, agent) == Append(list, agent)

FailedIgnored(f, agent) == f

\* main.go:217-219
Failed(f, agent) == f \/ agent.AgentStatus # "ACTIVE"

\* ------------------------------------------------------------- state
VARIABLES
  args,          \* os.Args[1:]
  accountArns,   \* cluster ARNs of the account, in listing order
  pc,            \* position of the program
  substring,     \* clusterNameSubstring
  started,       \* the paginator has fetched its first page
  pos,           \* number of cluster ARNs the paginator has handed out
  page,          \* output, err of paginator.NextPage
  matched,       \* clusters, the local of GetECSClustersWithSubstring
  lookup,        \* what GetECSClustersWithSubstring returned
  clusters,      \* clusters in main
  idx,           \* position of main's loop over clusters
  listOut,       \* output, err of ListContainerInstances
  batchOut,      \* describeOutput, err of the batch DescribeContainerInstances
  descOut,       \* describeOutput, err of a per-instance describe call
  reply,         \* what GetEC2InstanceIDAndECSAgentStatus returned
  instances,     \* containerInstances in GetAgentStatusForCluster
  i,             \* position of the loop over containerInstances
  collected,     \* agents, the local of GetAgentStatusForCluster
  replies,       \* what each per-instance describe of this cluster returned
  result,        \* result, err in main
  k,             \* position of main's loop over result
  results,       \* result, err of every GetAgentStatusForCluster call so far
  agents,        \* agents in main
  j,             \* position of main's loop over agents
  failed,        \* failed in main
  stdout,        \* lines written to standard output
  instanceCalls, \* a container-instance API call has been made
  exitCode       \* process exit code, -1 while running

vars == <<args, accountArns, pc, substring, started, pos, page, matched,
          lookup, clusters, idx, listOut, batchOut, descOut, reply, instances,
          i, collected, replies, result, k, results, agents, j, failed, stdout,
          instanceCalls, exitCode>>

envVars == <<args, accountArns>>
pagerVars == <<started, pos, page, matched>>
clusterVars == <<listOut, batchOut, descOut, reply, instances, i, collected,
                 replies>>
mainVars == <<substring, lookup, clusters, idx, result, k, results, agents,
              j, failed, stdout, exitCode>>

NoPage == [arns |-> <<>>, err |-> NoErr]
\* Values of the call results before the call is made.
NotCalled == "not called"
NoList == [arns |-> <<>>, err |-> NotCalled]
NoDesc == [instances |-> <<>>, err |-> NotCalled]
NoReply == [ec2 |-> <<>>, status |-> "", err |-> NotCalled]
NoRet == [val |-> <<>>, err |-> NoErr]

Init ==
  /\ args \in { <<>> } \cup { <<s>> : s \in Substrings }
  /\ accountArns \in { [n \in 1..Len(names) |-> ArnOf(names[n])] :
                         names \in DistinctSeqs(ClusterNames, MaxClusters) }
  /\ pc = "GetInput"
  /\ substring = <<>>
  /\ started = FALSE
  /\ pos = 0
  /\ page = NoPage
  /\ matched = <<>>
  /\ lookup = NoRet
  /\ clusters = <<>>
  /\ idx = 1
  /\ listOut = NoList
  /\ batchOut = NoDesc
  /\ descOut = NoDesc
  /\ reply = NoReply
  /\ instances = <<>>
  /\ i = 1
  /\ collected = <<>>
  /\ replies = <<>>
  /\ result = NoRet
  /\ k = 1
  /\ results = <<>>
  /\ agents = <<>>
  /\ j = 1
  /\ failed = FALSE
  /\ stdout = <<>>
  /\ instanceCalls = FALSE
  /\ exitCode = -1

\* ------------------------------------------------- environment: ECS API
\* paginator.HasMorePages()
HasMorePages == ~started \/ pos < Len(accountArns)

\* Responses of one ListClusters page request.
PageResponses ==
  { [arns |-> <<>>, err |-> SdkError, n |-> 0] } \cup
  { [arns |-> SubSeq(accountArns, pos + 1, pos + n), err |-> NoErr, n |-> n] :
      n \in (IF pos = Len(accountArns) THEN {0}
             ELSE 1..Min(Len(accountArns) - pos, MaxPageSize)) }

\* Responses of ListContainerInstances for a cluster.
ListResponses(cluster) ==
  { [arns |-> <<>>, err |-> SdkError] } \cup
  { [arns |-> [n \in 1..m |-> InstanceArn(cluster, n)], err |-> NoErr] :
      m \in 0..MaxInstances }

\* Responses of the batch describe: the listed instances that are still
\* registered, in listing order (those deregistered since the listing are
\* reported as failures, which the program does not read).
BatchResponses(arns) ==
  { [instances |-> <<>>, err |-> SdkError] } \cup
  { [instances |-> SubSeq(arns, 1, m), err |-> NoErr] : m \in 0..Len(arns) }

\* Responses of the describe call for one container instance.
DescribeResponses(arn) ==
  { [instances |-> <<>>, err |-> SdkError],
    [instances |-> <<>>, err |-> NoErr] } \cup
  { [instances |-> << [arn |-> arn, ec2 |-> Ec2IdOf(arn), status |-> s] >>,
     err |-> NoErr] : s \in Statuses }

\* config.LoadDefaultConfig
ConfigResults == { NoErr, SdkError }

\* -------------------------------------------------------------- helpers
BreakAfterError(n) == Len(clusters) + 1

\* main.go:210, continue
NextAfterError(n) == n + 1

ExitCodeNoRecords(f) == IF f \/ agents = <<>> THEN 1 ELSE 0

\* main.go:222-225
ExitCode(f) == IF f THEN 1 ELSE 0

\* The locals of GetECSClustersWithSubstring go out of scope at its return.
ResetPager ==
  /\ started' = FALSE
  /\ pos' = 0
  /\ page' = NoPage
  /\ matched' = <<>>

\* The locals of GetAgentStatusForCluster go out of scope at its return.
ResetCluster ==
  /\ listOut' = NoList
  /\ batchOut' = NoDesc
  /\ descOut' = NoDesc
  /\ reply' = NoReply
  /\ instances' = <<>>
  /\ i' = 1
  /\ collected' = <<>>
  /\ replies' = <<>>

\* -------------------------------------------------------------- actions
\* main.go:32-43 and 200
GetInputMissing ==
  /\ pc = "GetInput"
  /\ Len(args) < 1
  /\ stdout' = Append(stdout, UsageLine)
  /\ exitCode' = 1
  /\ pc' = "exited"
  /\ UNCHANGED <<envVars, pagerVars, clusterVars, substring, lookup, clusters,
                 idx, result, k, results, agents, j, failed, instanceCalls>>

GetInput ==
  /\ pc = "GetInput"
  /\ Len(args) >= 1
  /\ substring' = args[1]
  /\ pc' = "gc_config"
  /\ UNCHANGED <<envVars, pagerVars, clusterVars, lookup, clusters, idx,
                 result, k, results, agents, j, failed, stdout, exitCode,
                 instanceCalls>>

\* main.go:50-59
LoadConfigClusters ==
  /\ pc = "gc_config"
  /\ \E err \in ConfigResults :
       IF err # NoErr
         THEN /\ lookup' = [val |-> <<>>, err |-> err]
              /\ pc' = "main_lookup"
         ELSE /\ lookup' = lookup
              /\ pc' = "gc_pages"
  /\ UNCHANGED <<envVars, pagerVars, clusterVars, substring, clusters, idx,
                 result, k, results, agents, j, failed, stdout, exitCode,
                 instanceCalls>>

\* main.go:62-63
NextPage ==
  /\ pc = "gc_pages"
  /\ HasMorePages
  /\ \E r \in PageResponses :
       /\ page' = [arns |-> r.arns, err |-> r.err]
       /\ started' = (started \/ r.err = NoErr)
       /\ pos' = pos + r.n
  /\ pc' = "gc_page"
  /\ UNCHANGED <<envVars, clusterVars, mainVars, matched, instanceCalls>>

\* main.go:64-75
PageChecked ==
  /\ pc = "gc_page"
  /\ IF page.err # NoErr
       THEN /\ lookup' = [val |-> <<>>, err |-> page.err]
            /\ ResetPager
            /\ pc' = "main_lookup"
       ELSE /\ matched' = FilterPage(page.arns, substring, 1, matched)
            /\ lookup' = lookup
            /\ UNCHANGED <<started, pos, page>>
            /\ pc' = "gc_pages"
  /\ UNCHANGED <<envVars, clusterVars, substring, clusters, idx, result, k,
                 results, agents, j, failed, stdout, exitCode, instanceCalls>>

\* main.go:62 and 76-79
PagesDone ==
  /\ pc = "gc_pages"
  /\ ~HasMorePages
  /\ lookup' = ClustersResult(matched)
  /\ ResetPager
  /\ pc' = "main_lookup"
  /\ UNCHANGED <<envVars, clusterVars, substring, clusters, idx, result, k,
                 results, agents, j, failed, stdout, exitCode, instanceCalls>>

\* main.go:201-204, logger.Fatal exits with code 1
LookupFatal ==
  /\ pc = "main_lookup"
  /\ LookupFailed(lookup)
  /\ exitCode' = 1
  /\ pc' = "exited"
  /\ UNCHANGED <<envVars, pagerVars, clusterVars, substring, lookup, clusters,
                 idx, result, k, results, agents, j, failed, stdout,
                 instanceCalls>>

\* main.go:201-205
LookupOk ==
  /\ pc = "main_lookup"
  /\ ~LookupFailed(lookup)
  /\ clusters' = lookup.val
  /\ idx' = 1
  /\ pc' = "main_loop"
  /\ UNCHANGED <<envVars, pagerVars, clusterVars, substring, lookup, result, k,
                 results, agents, j, failed, stdout, exitCode, instanceCalls>>

\* main.go:206-207 and 165-169, 83-84
ClusterCall ==
  /\ pc = "main_loop"
  /\ idx <= Len(clusters)
  /\ pc' = "gci_config"
  /\ UNCHANGED <<envVars, pagerVars, clusterVars, mainVars, instanceCalls>>

\* main.go:206 and 216, the loop over clusters is exhausted
ClustersDone ==
  /\ pc = "main_loop"
  /\ idx > Len(clusters)
  /\ j' = 1
  /\ pc' = "main_print"
  /\ UNCHANGED <<envVars, pagerVars, clusterVars, substring, lookup, clusters,
                 idx, result, k, results, agents, failed, stdout, exitCode,
                 instanceCalls>>

\* main.go:87-98, and 170-172 on failure
LoadConfigInstances ==
  /\ pc = "gci_config"
  /\ \E err \in ConfigResults :
       IF err # NoErr
         THEN /\ result' = [val |-> <<>>, err |-> err]
              /\ pc' = "main_result"
         ELSE /\ result' = result
              /\ pc' = "gci_list"
  /\ UNCHANGED <<envVars, pagerVars, clusterVars, substring, lookup, clusters,
                 idx, k, results, agents, j, failed, stdout, exitCode,
                 instanceCalls>>

\* main.go:101
ListContainerInstances ==
  /\ pc = "gci_list"
  /\ \E r \in ListResponses(clusters[idx]) : listOut' = r
  /\ instanceCalls' = TRUE
  /\ pc' = "gci_list_check"
  /\ UNCHANGED <<envVars, pagerVars, mainVars, batchOut, descOut, reply,
                 instances, i, collected, replies>>

\* main.go:102-112, and 170-172 on failure
ListChecked ==
  /\ pc = "gci_list_check"
  /\ LET c == ListCheck(listOut)
     IN  IF c.done
           THEN /\ result' = [val |-> <<>>, err |-> c.err]
                /\ pc' = "main_result"
           ELSE /\ result' = result
                /\ pc' = "gci_describe"
  /\ UNCHANGED <<envVars, pagerVars, clusterVars, substring, lookup, clusters,
                 idx, k, results, agents, j, failed, stdout, exitCode,
                 instanceCalls>>

\* main.go:114
BatchDescribe ==
  /\ pc = "gci_describe"
  /\ \E r \in BatchResponses(listOut.arns) : batchOut' = r
  /\ instanceCalls' = TRUE
  /\ pc' = "gci_batch_check"
  /\ UNCHANGED <<envVars, pagerVars, mainVars, listOut, descOut, reply,
                 instances, i, collected, replies>>

\* main.go:115-124 and 169-172
BatchChecked ==
  /\ pc = "gci_batch_check"
  /\ IF batchOut.err # NoErr
       THEN /\ result' = [val |-> <<>>, err |-> batchOut.err]
            /\ instances' = instances
            /\ pc' = "main_result"
       ELSE /\ instances' = batchOut.instances
            /\ result' = result
            /\ pc' = "gas_loop"
  /\ UNCHANGED <<envVars, pagerVars, substring, lookup, clusters, idx, k,
                 results, agents, j, failed, stdout, exitCode, instanceCalls,
                 listOut, batchOut, descOut, reply, i, collected, replies>>

\* main.go:175-176 and 129-130
InstanceCall ==
  /\ pc = "gas_loop"
  /\ i <= Len(instances)
  /\ pc' = "gd_config"
  /\ UNCHANGED <<envVars, pagerVars, clusterVars, mainVars, instanceCalls>>

\* main.go:175 and 193, the loop over containerInstances is exhausted
InstancesDone ==
  /\ pc = "gas_loop"
  /\ i > Len(instances)
  /\ result' = [val |-> collected, err |-> NoErr]
  /\ pc' = "main_result"
  /\ UNCHANGED <<envVars, pagerVars, clusterVars, substring, lookup, clusters,
                 idx, k, results, agents, j, failed, stdout, exitCode,
                 instanceCalls>>

\* main.go:133-145
LoadConfigDescribe ==
  /\ pc = "gd_config"
  /\ \E err \in ConfigResults :
       IF err # NoErr
         THEN /\ reply' = [ec2 |-> <<>>, status |-> "", err |-> err]
              /\ pc' = "gas_check"
         ELSE /\ reply' = reply
              /\ pc' = "gd_describe"
  /\ UNCHANGED <<envVars, pagerVars, mainVars, instanceCalls, listOut, batchOut,
                 descOut, instances, i, collected, replies>>

\* main.go:147
DescribeInstance ==
  /\ pc = "gd_describe"
  /\ \E r \in DescribeResponses(instances[i]) : descOut' = r
  /\ instanceCalls' = TRUE
  /\ pc' = "gd_check"
  /\ UNCHANGED <<envVars, pagerVars, mainVars, listOut, batchOut, reply,
                 instances, i, collected, replies>>

\* main.go:148-161
DescribeChecked ==
  /\ pc = "gd_check"
  /\ reply' = DescribeResult(descOut)
  /\ pc' = "gas_check"
  /\ UNCHANGED <<envVars, pagerVars, mainVars, instanceCalls, listOut, batchOut,
                 descOut, instances, i, collected, replies>>

\* main.go:176-191
ReplyChecked ==
  /\ pc = "gas_check"
  /\ replies' = Append(replies, reply)
  /\ IF reply.err # NoErr
       THEN /\ result' = DescribeFail(collected, reply.err)
            /\ collected' = collected
            /\ i' = i
            /\ pc' = "main_result"
       ELSE /\ collected' = Append(collected,
                 MakeAgent(clusters[idx], instances[i], reply.ec2, reply.status))
            /\ i' = i + 1
            /\ result' = result
            /\ pc' = "gas_loop"
  /\ UNCHANGED <<envVars, pagerVars, substring, lookup, clusters, idx, k,
                 results, agents, j, failed, stdout, exitCode, instanceCalls,
                 listOut, batchOut, descOut, reply, instances>>

\* main.go:207-211, the call failed: log and continue
ClusterFailed ==
  /\ pc = "main_result"
  /\ result.err # NoErr
  /\ results' = Append(results, result)
  /\ idx' = NextAfterError(idx)
  /\ ResetCluster
  /\ pc' = "main_loop"
  /\ UNCHANGED <<envVars, pagerVars, substring, lookup, clusters, result, k,
                 agents, j, failed, stdout, exitCode, instanceCalls>>

\* main.go:207-212, the call succeeded
ClusterOk ==
  /\ pc = "main_result"
  /\ result.err = NoErr
  /\ results' = Append(results, result)
  /\ k' = 1
  /\ ResetCluster
  /\ pc' = "main_append"
  /\ UNCHANGED <<envVars, pagerVars, substring, lookup, clusters, idx, result,
                 agents, j, failed, stdout, exitCode, instanceCalls>>

\* main.go:212-214, one iteration of the loop over result
AppendRecord ==
  /\ pc = "main_append"
  /\ k <= Len(result.val)
  /\ agents' = AppendAgent(agents, result.val[k])
  /\ k' = k + 1
  /\ UNCHANGED <<envVars, pagerVars, clusterVars, substring, lookup, clusters,
                 idx, result, results, j, failed, stdout, exitCode,
                 instanceCalls, pc>>

\* main.go:212-215, the loop over result is exhausted
AppendDone ==
  /\ pc = "main_append"
  /\ k > Len(result.val)
  /\ idx' = idx + 1
  /\ pc' = "main_loop"
  /\ UNCHANGED <<envVars, pagerVars, clusterVars, substring, lookup, clusters,
                 result, k, results, agents, j, failed, stdout, exitCode,
                 instanceCalls>>

\* main.go:216-221, one iteration of the loop over agents
PrintRecord ==
  /\ pc = "main_print"
  /\ j <= Len(agents)
  /\ failed' = Failed(failed, agents[j])
  /\ stdout' = Append(stdout, String(agents[j]))
  /\ j' = j + 1
  /\ UNCHANGED <<envVars, pagerVars, clusterVars, substring, lookup, clusters,
                 idx, result, k, results, agents, exitCode, instanceCalls, pc>>

\* main.go:216 and 222-225
Exit ==
  /\ pc = "main_print"
  /\ j > Len(agents)
  /\ exitCode' = ExitCode(failed)
  /\ pc' = "exited"
  /\ UNCHANGED <<envVars, pagerVars, clusterVars, substring, lookup, clusters,
                 idx, result, k, results, agents, j, failed, stdout,
                 instanceCalls>>

Next ==
  \/ GetInputMissing
  \/ GetInput
  \/ LoadConfigClusters
  \/ NextPage
  \/ PageChecked
  \/ PagesDone
  \/ LookupFatal
  \/ LookupOk
  \/ ClusterCall
  \/ ClustersDone
  \/ LoadConfigInstances
  \/ ListContainerInstances
  \/ ListChecked
  \/ BatchDescribe
  \/ BatchChecked
  \/ InstanceCall
  \/ InstancesDone
  \/ LoadConfigDescribe
  \/ DescribeInstance
  \/ DescribeChecked
  \/ ReplyChecked
  \/ ClusterFailed
  \/ ClusterOk
  \/ AppendRecord
  \/ AppendDone
  \/ PrintRecord
  \/ Exit

Spec == Init /\ [][Next]_vars

\* ------------------------------------------------- vocabulary of claims
\* The cluster names of the account in listing order.
AccountNames ==
  [n \in 1..Len(accountArns) |->
     SubSeq(accountArns[n], Len(ArnPrefix) + 2, Len(accountArns[n]))]

\* sub occurs in name at some offset, character for character.
IsSubstring(name, sub) ==
  \E off \in 0..(Len(name) - Len(sub)) :
    \A n \in 1..Len(sub) : name[off + n] = sub[n]

\* The names of the account that contain the argument, in listing order.
MatchingNames ==
  LET Match(name) == IsSubstring(name, args[1])
  IN  SelectSeq(AccountNames, Match)

\* GetECSClustersWithSubstring has returned to main.
LookupReturned ==
  /\ Len(args) >= 1
  /\ pc \notin { "GetInput", "gc_config", "gc_pages", "gc_page" }

LookupSucceeded == LookupReturned /\ lookup.err = NoErr

\* The records returned by the first n collections that succeeded, in order.
RECURSIVE OkRecords(_)
OkRecords(n) ==
  IF n = 0 THEN <<>>
  ELSE OkRecords(n - 1) \o
       (IF results[n].err = NoErr THEN results[n].val ELSE <<>>)

\* The records of one cluster in main's list.
RecordsOf(cluster) ==
  LET Mine(a) == a.Cluster = cluster
  IN  SelectSeq(agents, Mine)

IsPrefix(s, t) == Len(s) <= Len(t) /\ SubSeq(t, 1, Len(s)) = s

\* The output line of a record as section 6 of the specification gives it.
RecordLine(a) ==
  <<"Cluster: ", a.Cluster, ", ContainerInstanceARN: ", a.ContainerInstanceARN,
    ", EC2InstanceID: ", a.EC2InstanceID, ", AgentStatus: ", a.AgentStatus>>

\* ---------------------------------------------------------------- claims
\* C1: when the listing completes, GetECSClustersWithSubstring returns
\* exactly the account's cluster names that contain the substring as a
\* literal, case-sensitive substring, in listing order, whatever the pages.
C1_ExactMatches ==
  (LookupReturned /\ lookup.err \in { NoErr, ErrNoClusters })
    => lookup.val = MatchingNames

\* A two-cluster account where "pa" selects pa and leaves out Pa.
C1_Witness ==
  /\ pc = "main_lookup"
  /\ args = << <<"p", "a">> >>
  /\ Len(accountArns) = 2
  /\ \E n \in 1..2 : AccountNames[n] = <<"P", "a">>
  /\ lookup = [val |-> << <<"p", "a">> >>, err |-> NoErr]

C3_NoClustersFound ==
  LookupReturned =>
    /\ (lookup.err # SdkError /\ MatchingNames = <<>>)
         => lookup = [val |-> <<>>, err |-> ErrNoClusters]
    /\ ~(lookup.val = <<>> /\ lookup.err = NoErr)

\* A non-empty account of which no cluster matches.
C3_Witness ==
  /\ pc = "main_lookup"
  /\ Len(accountArns) = 2
  /\ lookup = [val |-> <<>>, err |-> ErrNoClusters]

\* C4: a failed collection is not fatal and does not affect other clusters:
\* at exit every matched cluster has been processed, and the records of each
\* cluster in main's list are exactly what its own collection returned
\* (nothing for a failed one).
C4_FailureIsolated ==
  (pc = "exited" /\ LookupSucceeded) =>
    /\ Len(results) = Len(clusters)
    /\ \A n \in 1..Len(results) :
         /\ \A m \in 1..Len(results[n].val) :
              results[n].val[m].Cluster = clusters[n]
         /\ RecordsOf(clusters[n]) =
              (IF results[n].err = NoErr THEN results[n].val ELSE <<>>)

\* The first cluster failed and the second still delivered its records.
C4_Witness ==
  /\ pc = "exited"
  /\ Len(clusters) = 2
  /\ Len(results) = 2
  /\ results[1].err # NoErr
  /\ results[2].err = NoErr
  /\ Len(results[2].val) = 2
  /\ agents = results[2].val

\* C5: a cluster whose listing is empty makes the collection fail with
\* "no container instances found"; such a cluster has no record in main's
\* list, and at exit every matched cluster has been processed.
C5_EmptyCluster ==
  /\ (pc = "main_result" /\ listOut = [arns |-> <<>>, err |-> NoErr])
       => result = [val |-> <<>>, err |-> ErrNoInstances]
  /\ \A n \in 1..Len(results) :
       results[n].err = ErrNoInstances => RecordsOf(clusters[n]) = <<>>
  /\ (pc = "exited" /\ LookupSucceeded) => Len(results) = Len(clusters)

\* The first cluster had no instance and the second one was still collected.
C5_Witness ==
  /\ pc = "exited"
  /\ Len(results) = 2
  /\ results[1].err = ErrNoInstances
  /\ results[2].err = NoErr
  /\ Len(agents) >= 1

\* C6: after a successful lookup the output is one line per collected
\* record, in collection order: while printing, the lines of the records
\* already visited; at exit, the lines of all records of the clusters whose
\* collection succeeded, whatever the exit code.
C6_OneLinePerRecord ==
  /\ (pc = "main_print" /\ LookupSucceeded) =>
       stdout = [n \in 1..(j - 1) |-> RecordLine(agents[n])]
  /\ (pc = "exited" /\ LookupSucceeded) =>
       stdout = [n \in 1..Len(OkRecords(Len(results))) |->
                   RecordLine(OkRecords(Len(results))[n])]

\* A run that exits 1 after printing the records of two clusters.
C6_Witness ==
  /\ pc = "exited"
  /\ exitCode = 1
  /\ Len(results) = 2
  /\ Len(results[1].val) = 2
  /\ Len(results[2].val) = 1
  /\ Len(stdout) = 3

\* C7: after a failed lookup the program is at the check in main or has
\* exited with code 1; no container-instance call has been made and nothing
\* has been printed.
C7_FatalLookup ==
  (LookupReturned /\ lookup.err # NoErr) =>
    /\ pc \in { "main_lookup", "exited" }
    /\ pc = "exited" => exitCode = 1
    /\ ~instanceCalls
    /\ results = <<>>
    /\ stdout = <<>>

\* The process has exited because a page of the cluster listing failed.
C7_Witness ==
  /\ pc = "exited"
  /\ Len(accountArns) >= 1
  /\ lookup.err = SdkError
  /\ exitCode = 1

\* C8: GetAgentStatusForCluster is all-or-nothing: if a per-instance
\* describe failed it returns that error and no record; if the instances
\* were obtained and no describe failed it returns one record per instance
\* identifier, in order, built from the answers of the describe calls.
C8_AllOrNothing ==
  pc = "main_result" =>
    LET describeFailed ==
          \E n \in 1..Len(replies) : replies[n].err # NoErr
    IN  /\ describeFailed =>
             /\ result.val = <<>>
             /\ result.err = replies[Len(replies)].err
             /\ result.err \in { SdkError, ErrNotFound }
        /\ (batchOut.err = NoErr /\ ~describeFailed) =>
             /\ result.err = NoErr
             /\ Len(replies) = Len(instances)
             /\ result.val =
                  [n \in 1..Len(instances) |->
                     [Cluster |-> clusters[idx],
                      ContainerInstanceARN |-> instances[n],
                      EC2InstanceID |-> replies[n].ec2,
                      AgentStatus |-> replies[n].status]]

\* The second instance is gone after the first one was described.
C8_Witness ==
  /\ pc = "main_result"
  /\ Len(replies) = 2
  /\ replies[1].err = NoErr
  /\ replies[2].err = ErrNotFound
  /\ Len(collected) = 1
  /\ result.val = <<>>

\* C9: when the lookup succeeds and every collection fails, nothing is
\* printed and the exit code is 0; after a successful lookup the exit code
\* is 1 only if a collected record is not ACTIVE.
C9_AllClustersFail ==
  (pc = "exited" /\ LookupSucceeded) =>
    /\ (\A n \in 1..Len(results) : results[n].err # NoErr)
         => (stdout = <<>> /\ exitCode = 0)
    /\ exitCode = 1 =>
         \E n \in 1..Len(agents) : agents[n].AgentStatus # "ACTIVE"

\* Two matched clusters, both collections failed, exit code 0.
C9_Witness ==
  /\ pc = "exited"
  /\ Len(results) = 2
  /\ results[1].err = ErrNoInstances
  /\ results[2].err = SdkError
  /\ exitCode = 0

\* The position of a cluster name in the matched-cluster list.
ClusterIndex(cluster) ==
  CHOOSE c \in 1..Len(clusters) : clusters[c] = cluster

\* The grouping of main's list: every record belongs to a matched cluster
\* whose collection has returned without error, the list is a prefix of the
\* records of the successful collections in matched-cluster order, and the
\* cluster positions never decrease along the list.
GroupedByCluster ==
  /\ \A n \in 1..Len(agents) :
       \E c \in 1..Len(results) :
         /\ clusters[c] = agents[n].Cluster
         /\ results[c].err = NoErr
  /\ IsPrefix(agents, OkRecords(Len(results)))
  /\ \A n \in 1..(Len(agents) - 1) :
       ClusterIndex(agents[n].Cluster) <= ClusterIndex(agents[n + 1].Cluster)

\* C10: main's record list is append-only and grouped by cluster in every
\* reachable state, and holds records only of clusters whose whole
\* collection has succeeded.
C10_AppendOnlyGrouped ==
  /\ GroupedByCluster
  /\ [][GroupedByCluster' /\ IsPrefix(agents, agents')]_vars

\* The second record of the second cluster is about to be appended.
C10_Witness ==
  /\ pc = "main_append"
  /\ Len(results) = 2
  /\ Len(results[1].val) = 2
  /\ Len(results[2].val) = 2
  /\ Len(agents) = 3
  /\ k = 2

====
